---- MODULE Spec2Model ----
(***************************************************************************)
(* movingLeastSquaresCoefficients                                          *)
(* (src/interpolation/details/                                             *)
(*  ArborX_InterpDetailsMovingLeastSquaresCoefficients.hpp).               *)
(*                                                                         *)
(* One call of the function is modelled: the host thread runs the          *)
(* precondition assertion, allocates each table and enqueues the seven     *)
(* kernels on the execution space instance `space`, and returns; the       *)
(* execution space runs the enqueued kernels in order, the work items of   *)
(* one kernel in any order.                                                *)
(*                                                                         *)
(* CoefficientsType is modelled by exact rationals <<n, d>> (d > 0, lowest *)
(* terms); a division by zero yields NaN and the content of a slot         *)
(* allocated WithoutInitializing is Undef.  The dimension is 1 (point_t is *)
(* Point<1, CoefficientsType>), so the Euclidean distance to the origin is *)
(* the absolute value and stays rational.  PolynomialDegree is 0 or 1.     *)
(***************************************************************************)
EXTENDS Integers, Sequences, FiniteSets

VARIABLES
  extent0,            \* source_points.extent(0)
  num_neighbors,      \* source_points.extent(1)
  source_points,      \* [<<i, j>> -> coordinate]
  target_points,      \* [i -> coordinate]
  degree,             \* PolynomialDegree::value
  num_targets,        \* tgt_acc::size(target_points)
  hostpc,             \* "assert" | "launch" | "returned" | "aborted" | "crashed"
  dispatched,         \* number of kernels enqueued on `space` so far
  executed,           \* set of <<kernel, work item>> the device has run
  source_ref_target,  \* the tables, [slot -> value]
  radii,
  phi,
  p,
  a,
  coeffs,
  uninit_read         \* a work item has read a slot nothing had written

vars == <<extent0, num_neighbors, source_points, target_points, degree,
          num_targets, hostpc, dispatched, executed, source_ref_target, radii, phi, p, a,
          coeffs, uninit_read>>

-----------------------------------------------------------------------------
(* Bounds of the model *)

MaxNeighbors == 2

TargetCounts == 0 .. 2

SourceCoords == {0, 2}

TargetCoords == {0, 1}

\* Target sequences of length n: distinct targets, in increasing order
TargetSequences(n) ==
  {t \in [0 .. (n - 1) -> TargetCoords] :
     \A i \in 0 .. (n - 2) : t[i] < t[i + 1]}

\* Rows the neighborhood table lacks for the targets it is given: none (the
\* extents match), one, or minus one (a row too many)
MissingRows == {-1, 0, 1}

Degrees == {0, 1}

-----------------------------------------------------------------------------
(* CoefficientsType: exact rationals *)

NaN == <<0, 0>>

Undef == <<0, -1>>

Zero == <<0, 1>>

One == <<1, 1>>

IsNum(x) == x[2] > 0

Abs(n) == IF n < 0 THEN -n ELSE n

RECURSIVE GCD(_, _)
GCD(m, n) == IF n = 0 THEN m ELSE GCD(n, m % n)

Norm(n, d) ==
  IF d = 0 THEN NaN
  ELSE LET s == IF d < 0 THEN -1 ELSE 1
           g == GCD(Abs(n), Abs(d))
       IN  <<(s * n) \div g, (s * d) \div g>>

FromInt(n) == <<n, 1>>

RAdd(x, y) ==
  IF IsNum(x) /\ IsNum(y) THEN Norm(x[1] * y[2] + y[1] * x[2], x[2] * y[2])
  ELSE NaN

RSub(x, y) ==
  IF IsNum(x) /\ IsNum(y) THEN Norm(x[1] * y[2] - y[1] * x[2], x[2] * y[2])
  ELSE NaN

RMul(x, y) ==
  IF IsNum(x) /\ IsNum(y) THEN Norm(x[1] * y[1], x[2] * y[2]) ELSE NaN

RDiv(x, y) ==
  IF IsNum(x) /\ IsNum(y) THEN Norm(x[1] * y[2], x[2] * y[1]) ELSE NaN

RLess(x, y) == IsNum(x) /\ IsNum(y) /\ x[1] * y[2] < y[1] * x[2]

RAbs(x) == IF IsNum(x) THEN <<Abs(x[1]), x[2]>> ELSE NaN

\* Kokkos::max(a, b): a < b ? b : a
RMax(x, y) == IF RLess(x, y) THEN y ELSE x

RMin(x, y) == IF RLess(y, x) THEN y ELSE x

\* f[0] + ... + f[n - 1]
RECURSIVE SumTo(_, _)
SumTo(f, n) == IF n = 0 THEN Zero ELSE RAdd(SumTo(f, n - 1), f[n - 1])

-----------------------------------------------------------------------------
(* Compile-time constants of the call *)

\* Kokkos::Experimental::epsilon_v<float> = 2^-23
epsilon == <<1, 8388608>>

\* the literal 1.1 of radii(i) = 1.1 * radius
inflation == <<11, 10>>

\* polynomialBasisSize<1, degree>(): the monomials 1, x, ..., x^degree
poly_size == degree + 1

Targets == 0 .. (num_targets - 1)

Neighbors == 0 .. (num_neighbors - 1)

Basis == 0 .. (poly_size - 1)

-----------------------------------------------------------------------------
(* The kernels, in the order the host enqueues them on `space` *)

source_ref_target_fill == 1

radii_computation == 2

phi_computation == 3

vandermonde_computation == 4

moment_computation == 5

pseudo_inverse_svd == 6

coefficients_computation == 7

Kernels == source_ref_target_fill .. coefficients_computation

ItemsI == {<<i>> : i \in Targets}

ItemsIJ == {<<i, j>> : i \in Targets, j \in Neighbors}

ItemsIJK == {<<i, j, k>> : i \in Targets, j \in Basis, k \in Basis}

SlotsP == {<<i, j, k>> : i \in Targets, j \in Neighbors, k \in Basis}

\* The iteration range of each kernel's policy
Items(kernel) ==
  CASE kernel = radii_computation -> ItemsI
    [] kernel = pseudo_inverse_svd -> ItemsI
    [] kernel = moment_computation -> ItemsIJK
    [] OTHER -> ItemsIJ

Pending(kernel) == {w \in Items(kernel) : <<kernel, w>> \notin executed}

\* Every kernel enqueued so far has run all its work items
Drained == \A kernel \in 1 .. dispatched : Pending(kernel) = {}

\* Variant: an enqueued kernel starts without waiting for the earlier ones
RunnableUnordered(kernel) ==
  /\ hostpc \notin {"aborted", "crashed"}
  /\ kernel <= dispatched

\* Kernels enqueued on one execution space instance run in the order they
\* were enqueued: a kernel starts once every earlier one has finished.
Runnable(kernel) ==
  /\ hostpc \notin {"aborted", "crashed"}
  /\ kernel <= dispatched
  /\ \A earlier \in 1 .. (kernel - 1) : Pending(earlier) = {}

-----------------------------------------------------------------------------
(* External numeric kernels *)

\* ArborX::Details::distance(x, point_t{}) in dimension 1
distance(x) == RAbs(x)

\* CRBF::evaluate: a compactly supported radial kernel, here Wendland C0
CRBFEvaluate(y) ==
  LET x == RMin(RAbs(y), One)
  IN  RMul(RSub(One, x), RSub(One, x))

RECURSIVE RPow(_, _)
RPow(x, k) == IF k = 0 THEN One ELSE RMul(x, RPow(x, k - 1))

\* evaluatePolynomialBasis<degree>(x): index 0 is the constant term
evaluatePolynomialBasis(x) == [k \in Basis |-> RPow(x, k)]

\* Moore-Penrose pseudo-inverse of a symmetric poly_size x poly_size matrix
\* m = [<<j, k>> -> value], poly_size <= 2
PseudoInverseMatrix(m) ==
  IF poly_size = 1
  THEN [s \in {<<0, 0>>} |->
          IF m[<<0, 0>>] = Zero THEN Zero ELSE RDiv(One, m[<<0, 0>>])]
  ELSE LET det == RSub(RMul(m[<<0, 0>>], m[<<1, 1>>]),
                       RMul(m[<<0, 1>>], m[<<1, 0>>]))
           tr  == RAdd(m[<<0, 0>>], m[<<1, 1>>])
           adj == [s \in DOMAIN m |->
                     IF s[1] = s[2] THEN m[<<1 - s[1], 1 - s[2]>>]
                     ELSE RSub(Zero, m[s])]
       IN  IF det # Zero THEN [s \in DOMAIN m |-> RDiv(adj[s], det)]
           ELSE IF tr = Zero THEN [s \in DOMAIN m |-> Zero]
           ELSE [s \in DOMAIN m |-> RDiv(m[s], RMul(tr, tr))]

-----------------------------------------------------------------------------
(* The lambdas of the kernels *)

\* t[k] = src[k] - tgt[k]
SourceRefTargetValue(src, tgt) == FromInt(src - tgt)

RECURSIVE RadiusLoop(_, _, _)
RadiusLoop(i, j, radius) ==
  IF j >= num_neighbors THEN radius
  ELSE RadiusLoop(i, j + 1,
                  RMax(radius, distance(source_ref_target[<<i, j>>])))

\* Variant: the running maximum starts at 0 instead of epsilon
RadiusValueNoFloor(i) == RMul(inflation, RadiusLoop(i, 0, Zero))

\* Variant: the inflated maximum is floored at epsilon afterwards
RadiusValueFlooredLast(i) ==
  RMax(epsilon, RMul(inflation, RadiusLoop(i, 0, Zero)))

RadiusValue(i) == RMul(inflation, RadiusLoop(i, 0, epsilon))

PhiValue(i, j) ==
  CRBFEvaluate(RDiv(distance(source_ref_target[<<i, j>>]), radii[<<i>>]))

VandermondeValue(i, j, k) ==
  evaluatePolynomialBasis(source_ref_target[<<i, j>>])[k]

RECURSIVE MomentLoop(_, _, _, _, _)
MomentLoop(i, j, k, l, tmp) ==
  IF l >= num_neighbors THEN tmp
  ELSE MomentLoop(i, j, k, l + 1,
         RAdd(tmp, RMul(RMul(p[<<i, l, j>>], p[<<i, l, k>>]), phi[<<i, l>>])))

\* Variant: the summand lacks the factor p(i, l, k)
MomentValueOneFactor(i, j, k) ==
  SumTo([l \in Neighbors |-> RMul(p[<<i, l, j>>], phi[<<i, l>>])],
        num_neighbors)

MomentValue(i, j, k) == MomentLoop(i, j, k, 0, Zero)

RECURSIVE CoefficientLoop(_, _, _, _)
CoefficientLoop(i, j, k, tmp) ==
  IF k >= poly_size THEN tmp
  ELSE CoefficientLoop(i, j, k + 1,
         RAdd(tmp, RMul(RMul(a[<<i, 0, k>>], p[<<i, j, k>>]), phi[<<i, j>>])))

\* Variant: the summand lacks the weight phi(i, j)
CoefficientValueNoWeight(i, j) ==
  SumTo([k \in Basis |-> RMul(a[<<i, 0, k>>], p[<<i, j, k>>])], poly_size)

\* Variant: the last row of the inverse is used instead of row 0
CoefficientValueLastRow(i, j) ==
  SumTo([k \in Basis |->
           RMul(RMul(a[<<i, poly_size - 1, k>>], p[<<i, j, k>>]),
                phi[<<i, j>>])],
        poly_size)

CoefficientValue(i, j) == CoefficientLoop(i, j, 0, Zero)

\* Variant: the coefficient stage also reads radii(i)
ReadsRadiiAgain(kernel, w) ==
  CASE kernel = source_ref_target_fill -> {}
    [] kernel = radii_computation ->
         {<<"source_ref_target", <<w[1], j>>>> : j \in Neighbors}
    [] kernel = phi_computation ->
         {<<"source_ref_target", w>>, <<"radii", <<w[1]>>>>}
    [] kernel = vandermonde_computation -> {<<"source_ref_target", w>>}
    [] kernel = moment_computation ->
         {<<"p", <<w[1], l, w[2]>>>> : l \in Neighbors}
         \cup {<<"p", <<w[1], l, w[3]>>>> : l \in Neighbors}
         \cup {<<"phi", <<w[1], l>>>> : l \in Neighbors}
    [] kernel = pseudo_inverse_svd ->
         {<<"a", <<w[1], j, k>>>> : j \in Basis, k \in Basis}
    [] OTHER ->
         {<<"a", <<w[1], 0, k>>>> : k \in Basis}
         \cup {<<"p", <<w[1], w[2], k>>>> : k \in Basis}
         \cup {<<"phi", w>>, <<"radii", <<w[1]>>>>}

\* The slots a work item reads, as <<table, slot>>
Reads(kernel, w) ==
  CASE kernel = source_ref_target_fill -> {}
    [] kernel = radii_computation ->
         {<<"source_ref_target", <<w[1], j>>>> : j \in Neighbors}
    [] kernel = phi_computation ->
         {<<"source_ref_target", w>>, <<"radii", <<w[1]>>>>}
    [] kernel = vandermonde_computation -> {<<"source_ref_target", w>>}
    [] kernel = moment_computation ->
         {<<"p", <<w[1], l, w[2]>>>> : l \in Neighbors}
         \cup {<<"p", <<w[1], l, w[3]>>>> : l \in Neighbors}
         \cup {<<"phi", <<w[1], l>>>> : l \in Neighbors}
    [] kernel = pseudo_inverse_svd ->
         {<<"a", <<w[1], j, k>>>> : j \in Basis, k \in Basis}
    [] OTHER ->
         {<<"a", <<w[1], 0, k>>>> : k \in Basis}
         \cup {<<"p", <<w[1], w[2], k>>>> : k \in Basis}
         \cup {<<"phi", w>>}

\* Variant: every work item of the radius stage writes radii(0)
WritesRadiiSlotZero(kernel, w) ==
  CASE kernel = source_ref_target_fill -> {<<"source_ref_target", w>>}
    [] kernel = radii_computation -> {<<"radii", <<0>>>>}
    [] kernel = phi_computation -> {<<"phi", w>>}
    [] kernel = vandermonde_computation ->
         {<<"p", <<w[1], w[2], k>>>> : k \in Basis}
    [] kernel = moment_computation -> {<<"a", w>>}
    [] kernel = pseudo_inverse_svd ->
         {<<"a", <<w[1], j, k>>>> : j \in Basis, k \in Basis}
    [] OTHER -> {<<"coeffs", w>>}

\* The slots a work item writes, as <<table, slot>>
Writes(kernel, w) ==
  CASE kernel = source_ref_target_fill -> {<<"source_ref_target", w>>}
    [] kernel = radii_computation -> {<<"radii", w>>}
    [] kernel = phi_computation -> {<<"phi", w>>}
    [] kernel = vandermonde_computation ->
         {<<"p", <<w[1], w[2], k>>>> : k \in Basis}
    [] kernel = moment_computation -> {<<"a", w>>}
    [] kernel = pseudo_inverse_svd ->
         {<<"a", <<w[1], j, k>>>> : j \in Basis, k \in Basis}
    [] OTHER -> {<<"coeffs", w>>}

Table(name) ==
  CASE name = "source_ref_target" -> source_ref_target
    [] name = "radii" -> radii
    [] name = "phi" -> phi
    [] name = "p" -> p
    [] name = "a" -> a
    [] OTHER -> coeffs

ReadsUninit(kernel, w) ==
  \E r \in Reads(kernel, w) : Table(r[1])[r[2]] = Undef

\* Kokkos::view_alloc(space, Kokkos::WithoutInitializing, ...)
WithoutInitializing(slots) == [s \in slots |-> Undef]

Unallocated == [s \in {} |-> Undef]

\* A work item's stores: the slots of Writes(kernel, w) take Value(slot)
Store(table, name, kernel, w, Value(_)) ==
  [s \in DOMAIN table |->
     IF <<name, s>> \in Writes(kernel, w) THEN Value(s) ELSE table[s]]

-----------------------------------------------------------------------------
(* Initial state: the arguments of the call *)

Init ==
  /\ num_targets \in TargetCounts
  /\ \E missing \in MissingRows :
       /\ num_targets - missing \in TargetCounts
       /\ extent0 = num_targets - missing
  /\ num_neighbors \in 0 .. MaxNeighbors
  /\ degree \in Degrees
  /\ source_points \in
       [{<<i, j>> : i \in 0 .. (extent0 - 1), j \in Neighbors} -> SourceCoords]
  /\ target_points \in TargetSequences(num_targets)
  /\ hostpc = "assert"
  /\ dispatched = 0
  /\ executed = {}
  /\ source_ref_target = Unallocated
  /\ radii = Unallocated
  /\ phi = Unallocated
  /\ p = Unallocated
  /\ a = Unallocated
  /\ coeffs = Unallocated
  /\ uninit_read = FALSE

inputs == <<extent0, num_neighbors, source_points, target_points, degree,
            num_targets>>

tables == <<source_ref_target, radii, phi, p, a, coeffs>>

-----------------------------------------------------------------------------
(* Host thread *)

\* KOKKOS_ASSERT(num_targets == source_points.extent_int(0)) in a build that
\* enables the macro (KOKKOS_ENABLE_DEBUG): the condition is false, abort.
KokkosAssertAbort ==
  /\ hostpc = "assert"
  /\ num_targets # extent0
  /\ hostpc' = "aborted"
  /\ UNCHANGED <<inputs, tables, dispatched, executed, uninit_read>>

\* The same statement when the condition holds, or in a build where
\* KOKKOS_ASSERT expands to nothing (no KOKKOS_ENABLE_DEBUG).
KokkosAssertPass ==
  /\ hostpc = "assert"
  /\ hostpc' = "launch"
  /\ UNCHANGED <<inputs, tables, dispatched, executed, uninit_read>>

\* The View a stage allocates before its parallel_for
Allocate(kernel) ==
  /\ source_ref_target' =
       IF kernel = source_ref_target_fill
       THEN WithoutInitializing(ItemsIJ) ELSE source_ref_target
  /\ radii' =
       IF kernel = radii_computation
       THEN WithoutInitializing(ItemsI) ELSE radii
  /\ phi' =
       IF kernel = phi_computation THEN WithoutInitializing(ItemsIJ) ELSE phi
  /\ p' =
       IF kernel = vandermonde_computation
       THEN WithoutInitializing(SlotsP) ELSE p
  /\ a' =
       IF kernel = moment_computation
       THEN WithoutInitializing(ItemsIJK) ELSE a
  /\ coeffs' =
       IF kernel = coefficients_computation
       THEN WithoutInitializing(ItemsIJ) ELSE coeffs

\* One stage on the host: allocate the stage's View and enqueue its kernel on
\* `space`.  The host does not wait for the kernel (a parallel_for may return
\* before its kernel has run).
Launch(kernel) ==
  /\ hostpc = "launch"
  /\ dispatched = kernel - 1
  /\ dispatched' = kernel
  /\ Allocate(kernel)
  /\ UNCHANGED <<inputs, hostpc, executed, uninit_read>>

\* Leaving the function destroys source_ref_target, radii, phi, p and a;
\* deallocating a managed View waits for the kernels enqueued before it.
ScopeExitFence == Drained

\* return coeffs;
Return ==
  /\ hostpc = "launch"
  /\ dispatched = coefficients_computation
  /\ ScopeExitFence
  /\ hostpc' = "returned"
  /\ source_ref_target' = Unallocated
  /\ radii' = Unallocated
  /\ phi' = Unallocated
  /\ p' = Unallocated
  /\ a' = Unallocated
  /\ UNCHANGED <<inputs, coeffs, dispatched, executed, uninit_read>>

-----------------------------------------------------------------------------
(* Execution space: one action per kernel, one step per work item *)

Run(kernel, w) ==
  /\ Runnable(kernel)
  /\ w \in Pending(kernel)
  /\ executed' = executed \cup {<<kernel, w>>}
  /\ uninit_read' = (uninit_read \/ ReadsUninit(kernel, w))
  /\ UNCHANGED <<inputs, dispatched>>

\* source_points(i, j) with i < extent(0) is the table's entry; beyond the
\* extent the access is out of bounds: any value, or a fault.
SourceRefTargetFill(i, j) ==
  /\ Run(source_ref_target_fill, <<i, j>>)
  /\ \/ /\ i < extent0
        /\ source_ref_target' =
             Store(source_ref_target, "source_ref_target",
                   source_ref_target_fill, <<i, j>>,
                   LAMBDA s : SourceRefTargetValue(source_points[<<i, j>>],
                                                   target_points[i]))
        /\ UNCHANGED hostpc
     \/ /\ i >= extent0
        /\ \E src \in SourceCoords :
             source_ref_target' =
               Store(source_ref_target, "source_ref_target",
                     source_ref_target_fill, <<i, j>>,
                     LAMBDA s : SourceRefTargetValue(src, target_points[i]))
        /\ UNCHANGED hostpc
     \/ /\ i >= extent0
        /\ hostpc' = "crashed"
        /\ UNCHANGED source_ref_target
  /\ UNCHANGED <<radii, phi, p, a, coeffs>>

RadiiComputation(i) ==
  /\ Run(radii_computation, <<i>>)
  /\ radii' = Store(radii, "radii", radii_computation, <<i>>,
                    LAMBDA s : RadiusValue(i))
  /\ UNCHANGED <<hostpc, source_ref_target, phi, p, a, coeffs>>

PhiComputation(i, j) ==
  /\ Run(phi_computation, <<i, j>>)
  /\ phi' = Store(phi, "phi", phi_computation, <<i, j>>,
                  LAMBDA s : PhiValue(i, j))
  /\ UNCHANGED <<hostpc, source_ref_target, radii, p, a, coeffs>>

VandermondeComputation(i, j) ==
  /\ Run(vandermonde_computation, <<i, j>>)
  /\ p' = Store(p, "p", vandermonde_computation, <<i, j>>,
                LAMBDA s : VandermondeValue(i, j, s[3]))
  /\ UNCHANGED <<hostpc, source_ref_target, radii, phi, a, coeffs>>

MomentComputation(i, j, k) ==
  /\ Run(moment_computation, <<i, j, k>>)
  /\ a' = Store(a, "a", moment_computation, <<i, j, k>>,
                LAMBDA s : MomentValue(i, j, k))
  /\ UNCHANGED <<hostpc, source_ref_target, radii, phi, p, coeffs>>

\* symmetricPseudoInverseSVD(space, a): matrix i is replaced in place
SymmetricPseudoInverseSVD(i) ==
  /\ Run(pseudo_inverse_svd, <<i>>)
  /\ LET inv == PseudoInverseMatrix([s \in Basis \X Basis |->
                                       a[<<i, s[1], s[2]>>]])
     IN  a' = Store(a, "a", pseudo_inverse_svd, <<i>>,
                    LAMBDA s : inv[<<s[2], s[3]>>])
  /\ UNCHANGED <<hostpc, source_ref_target, radii, phi, p, coeffs>>

CoefficientsComputation(i, j) ==
  /\ Run(coefficients_computation, <<i, j>>)
  /\ coeffs' = Store(coeffs, "coeffs", coefficients_computation, <<i, j>>,
                     LAMBDA s : CoefficientValue(i, j))
  /\ UNCHANGED <<hostpc, source_ref_target, radii, phi, p, a>>

-----------------------------------------------------------------------------

Next ==
  \/ KokkosAssertAbort
  \/ KokkosAssertPass
  \/ \E kernel \in Kernels : Launch(kernel)
  \/ Return
  \/ \E i \in Targets, j \in Neighbors : SourceRefTargetFill(i, j)
  \/ \E i \in Targets : RadiiComputation(i)
  \/ \E i \in Targets, j \in Neighbors : PhiComputation(i, j)
  \/ \E i \in Targets, j \in Neighbors : VandermondeComputation(i, j)
  \/ \E i \in Targets, j \in Basis, k \in Basis : MomentComputation(i, j, k)
  \/ \E i \in Targets : SymmetricPseudoInverseSVD(i)
  \/ \E i \in Targets, j \in Neighbors : CoefficientsComputation(i, j)

Spec == Init /\ [][Next]_vars

-----------------------------------------------------------------------------
(* Vocabulary of the properties *)

\* Kernel `kernel` has been enqueued and it and every kernel enqueued before
\* it have run all their work items
Done(kernel) ==
  /\ kernel <= dispatched
  /\ \A earlier \in 1 .. kernel : Pending(earlier) = {}

\* The tables still exist: the host has not left the function
Alive == hostpc = "launch"

Written(table, slot) == slot \in DOMAIN table /\ table[slot] # Undef

\* Row i of the neighborhood table exists
HasRow(i) == i < extent0

RECURSIVE MaxOf(_)
MaxOf(S) ==
  IF S = {} THEN 0
  ELSE LET x == CHOOSE y \in S : TRUE
           m == MaxOf(S \ {x})
       IN  IF x > m THEN x ELSE m

\* Reference values, computed from the arguments of the call alone
RefRelative(i, j) == source_points[<<i, j>>] - target_points[i]

RefMaxDistance(i) == MaxOf({Abs(RefRelative(i, j)) : j \in Neighbors})

RefRadius(i) ==
  IF RefMaxDistance(i) = 0 THEN Norm(11, 10 * epsilon[2])
  ELSE Norm(11 * RefMaxDistance(i), 10)

RefWeight(i, j) ==
  LET r == RDiv(FromInt(Abs(RefRelative(i, j))), RefRadius(i))
      c == RSub(One, r)
  IN  IF RLess(r, One) THEN RMul(c, c) ELSE Zero

RefBasis(i, j, k) == IF k = 0 THEN One ELSE FromInt(RefRelative(i, j))

RefMoment(i) ==
  [s \in Basis \X Basis |->
     SumTo([l \in Neighbors |->
              RMul(RefWeight(i, l),
                   RMul(RefBasis(i, l, s[1]), RefBasis(i, l, s[2])))],
           num_neighbors)]

RefInverse(i) == PseudoInverseMatrix(RefMoment(i))

RefCoefficient(i, j) ==
  SumTo([k \in Basis |->
           RMul(RefInverse(i)[<<0, k>>],
                RMul(RefBasis(i, j, k), RefWeight(i, j)))],
        poly_size)

\* The largest distance of a neighbor of target i to the local origin,
\* read off the table of relative coordinates
MaxDistance(i) ==
  LET far == CHOOSE j \in Neighbors :
               \A l \in Neighbors :
                 ~RLess(distance(source_ref_target[<<i, j>>]),
                        distance(source_ref_target[<<i, l>>]))
  IN  IF num_neighbors = 0 THEN Zero
      ELSE distance(source_ref_target[<<i, far>>])

\* All neighbors of target i coincide with the target
Degenerate(i) ==
  /\ HasRow(i)
  /\ \A j \in Neighbors : source_points[<<i, j>>] = target_points[i]

-----------------------------------------------------------------------------
(* C4 *)

\* C4: every radius written is strictly positive, on every input (also with
\* all neighbors on the target, and with no neighbor at all), so the weight
\* stage never divides by zero; and for a target whose neighbors all coincide
\* with it, every radius, weight, moment, inverse and coefficient value
\* written for that target is finite.
C4_RadiusPositiveAndFinite ==
  /\ \A i \in Targets :
       Written(radii, <<i>>) => RLess(Zero, radii[<<i>>])
  /\ \A i \in Targets :
       Degenerate(i) =>
         /\ Written(radii, <<i>>) => IsNum(radii[<<i>>])
         /\ \A j \in Neighbors :
              /\ Written(phi, <<i, j>>) => IsNum(phi[<<i, j>>])
              /\ Written(coeffs, <<i, j>>) => IsNum(coeffs[<<i, j>>])
         /\ \A j \in Basis, k \in Basis :
              Written(a, <<i, j, k>>) => IsNum(a[<<i, j, k>>])

\* A target with all its neighbors on it has gone through every stage
C4_Witness ==
  /\ Alive
  /\ Done(coefficients_computation)
  /\ num_neighbors >= 1
  /\ \E i \in Targets :
       /\ Degenerate(i)
       /\ \A j \in Neighbors : IsNum(coeffs[<<i, j>>])

-----------------------------------------------------------------------------
(* C7 *)

\* C7 as stated: radius[i] = max(epsilon, 1.1 * max_j dist(i, j)), so that
\* radius[i] = epsilon when all neighbors coincide with the target.
C7_AsStated ==
  \A i \in Targets :
    (Alive /\ num_targets = extent0 /\ num_neighbors >= 1
       /\ Written(radii, <<i>>)) =>
      radii[<<i>>] = RMax(epsilon, RMul(inflation, MaxDistance(i)))

\* C7 amended: radius[i] = 1.1 * max(epsilon, max_j dist(i, j)): the floor at
\* epsilon is applied to the largest distance, before the factor 1.1; the
\* radius is 1.1 * epsilon when all neighbors coincide with the target.
C7_RadiusFormula ==
  \A i \in Targets :
    (Alive /\ Written(radii, <<i>>)) =>
      /\ radii[<<i>>] = RMul(inflation, RMax(epsilon, MaxDistance(i)))
      /\ Degenerate(i) => radii[<<i>>] = RMul(inflation, epsilon)

\* One target at the floor and one whose farthest neighbor is at distance 1
C7_Witness ==
  /\ Alive
  /\ num_neighbors >= 1
  /\ \E i \in Targets :
       Degenerate(i) /\ Written(radii, <<i>>)
  /\ \E i \in Targets :
       Written(radii, <<i>>) /\ radii[<<i>>] = <<11, 10>>

-----------------------------------------------------------------------------
(* C8 *)

\* The moment matrix of target i as the tables p and phi define it
MomentOf(i) ==
  [s \in Basis \X Basis |->
     SumTo([l \in Neighbors |->
              RMul(RMul(p[<<i, l, s[1]>>], p[<<i, l, s[2]>>]), phi[<<i, l>>])],
           num_neighbors)]

\* The moment stage is complete and matrix i has not been inverted yet
MomentReady(i) ==
  /\ Alive
  /\ Done(moment_computation)
  /\ <<pseudo_inverse_svd, <<i>>>> \notin executed

\* C8: after the moment stage and before the pseudo-inverse, for every
\* target i and basis indices j, k: a(i,j,k) is the sum over the neighbors l
\* of p(i,l,j) * p(i,l,k) * phi(i,l), and a(i,j,k) = a(i,k,j).
C8_MomentSymmetric ==
  \A i \in Targets :
    MomentReady(i) =>
      \A j \in Basis, k \in Basis :
        /\ a[<<i, j, k>>] = MomentOf(i)[<<j, k>>]
        /\ a[<<i, j, k>>] = a[<<i, k, j>>]

\* A 2 x 2 moment matrix with a nonzero off-diagonal entry, not yet inverted
C8_Witness ==
  \E i \in Targets :
    /\ MomentReady(i)
    /\ degree = 1
    /\ a[<<i, 0, 1>>] # Zero
    /\ a[<<i, 0, 0>>] # a[<<i, 1, 1>>]

-----------------------------------------------------------------------------
(* C9 *)

\* p(0): the basis of the local origin, where the target is
BasisAtOrigin == evaluatePolynomialBasis(Zero)

\* Entry j of the line vector p(0) . Ainv . P^T . PHI of target i, Ainv being
\* the table a after the pseudo-inverse
LineVector(i, j) ==
  SumTo([r \in Basis |->
           RMul(BasisAtOrigin[r],
                SumTo([k \in Basis |->
                         RMul(RMul(a[<<i, r, k>>], p[<<i, j, k>>]),
                              phi[<<i, j>>])],
                      poly_size))],
        poly_size)

\* C9: once the coefficient stage is complete, for every (i, j): a holds the
\* pseudo-inverse of the moment matrix, coeff(i,j) is the sum over k of
\* Ainv(i,0,k) * P(i,j,k) * weight(i,j), the stage reads row 0 of Ainv only,
\* and that sum is entry j of p(0) . Ainv . P^T . PHI, the relative
\* coordinates being source minus target and basis index 0 the constant 1.
C9_CoefficientExtraction ==
  (Alive /\ Done(coefficients_computation)) =>
    \A i \in Targets :
      /\ [s \in Basis \X Basis |-> a[<<i, s[1], s[2]>>]]
           = PseudoInverseMatrix(MomentOf(i))
      /\ \A j \in Neighbors :
           /\ coeffs[<<i, j>>] =
                SumTo([k \in Basis |->
                         RMul(RMul(a[<<i, 0, k>>], p[<<i, j, k>>]),
                              phi[<<i, j>>])],
                      poly_size)
           /\ coeffs[<<i, j>>] = LineVector(i, j)
           /\ p[<<i, j, 0>>] = One
           /\ HasRow(i) =>
                source_ref_target[<<i, j>>]
                  = FromInt(source_points[<<i, j>>] - target_points[i])
           /\ \A r \in Reads(coefficients_computation, <<i, j>>) :
                r[1] = "a" => r[2][2] = 0

\* Degree 1, a target away from the origin of the coordinates, and a
\* coefficient to which row 0 of the inverse contributes through both columns
C9_Witness ==
  /\ Alive
  /\ Done(coefficients_computation)
  /\ degree = 1
  /\ \E i \in Targets, j \in Neighbors :
       /\ HasRow(i)
       /\ target_points[i] # 0
       /\ a[<<i, 0, 1>>] # Zero
       /\ coeffs[<<i, j>>] # Zero

-----------------------------------------------------------------------------
(* C1 *)

\* Target i has poly_size affinely independent neighbors: in dimension 1,
\* poly_size distinct neighbor positions
Unisolvent(i) ==
  /\ HasRow(i)
  /\ Cardinality({source_points[<<i, j>>] : j \in Neighbors}) >= poly_size

\* The polynomials c[0] + c[1] * x of degree <= degree, small coefficients
Polynomials ==
  {c \in [0 .. 1 -> -1 .. 2] : degree = 0 => c[1] = 0}

Eval(c, x) == c[0] + c[1] * x

\* C1: once the coefficients are complete, for every target i with poly_size
\* affinely independent neighbors and every polynomial f of degree <= degree,
\* sum_j coeff(i,j) * f(source(i,j)) = f(target(i)); for degree 0 the
\* coefficients of the target sum to 1.
C1_PolynomialReproduction ==
  Done(coefficients_computation) =>
    \A i \in Targets :
      Unisolvent(i) =>
        /\ \A c \in Polynomials :
             SumTo([j \in Neighbors |->
                      RMul(coeffs[<<i, j>>],
                           FromInt(Eval(c, source_points[<<i, j>>])))],
                   num_neighbors)
               = FromInt(Eval(c, target_points[i]))
        /\ degree = 0 =>
             SumTo([j \in Neighbors |-> coeffs[<<i, j>>]], num_neighbors) = One

\* Degree 1 and a target with two distinct neighbors at unequal distances
C1_Witness ==
  /\ Done(coefficients_computation)
  /\ degree = 1
  /\ \E i \in Targets :
       /\ Unisolvent(i)
       /\ \E j \in Neighbors, l \in Neighbors :
            coeffs[<<i, j>>] # coeffs[<<i, l>>]

-----------------------------------------------------------------------------
(* C5 *)

\* The work items of the kernels enqueued before `kernel` that write slot r
Producers(kernel, r) ==
  UNION {{<<k, w>> : w \in {x \in Items(k) : r \in Writes(k, x)}} :
           k \in 1 .. (kernel - 1)}

\* The work item that runs in the step, if one does
Ran == executed' \ executed

\* C5: no work item reads a slot of source_ref_target, radii, phi, p or a
\* before the stages enqueued earlier have written it: when a work item runs,
\* every slot it reads has a producer among the earlier stages and all the
\* producers of the slot have run; in particular a coefficient work item of
\* target i runs only after the in-place pseudo-inverse of matrix i; and no
\* read ever returns the content of a slot allocated WithoutInitializing and
\* not written since.
C5_Step ==
  \A e \in Ran :
    /\ \A r \in Reads(e[1], e[2]) :
         /\ Producers(e[1], r) # {}
         /\ Producers(e[1], r) \subseteq executed
         /\ Table(r[1])[r[2]] # Undef
    /\ e[1] = coefficients_computation =>
         <<pseudo_inverse_svd, <<e[2][1]>>>> \in executed

C5_StageOrdering == [](~uninit_read) /\ [][C5_Step]_vars

\* A coefficient work item has read the inverse, p and phi and written its
\* slot while other work items of the stage are still to run
C5_Witness ==
  /\ degree = 1
  /\ \E i \in Targets, j \in Neighbors :
       /\ <<coefficients_computation, <<i, j>>>> \in executed
       /\ Written(coeffs, <<i, j>>)
       /\ Pending(coefficients_computation) # {}

-----------------------------------------------------------------------------
(* C6 *)

\* Work item e shares no slot it writes, and no slot it reads, with the
\* writes of the work items of its stage that have run
RaceFree(e) ==
  \A e2 \in executed :
    (e2[1] = e[1] /\ e2[2] # e[2]) =>
      /\ Writes(e[1], e[2]) \cap Writes(e2[1], e2[2]) = {}
      /\ Reads(e[1], e[2]) \cap Writes(e2[1], e2[2]) = {}
      /\ Reads(e2[1], e2[2]) \cap Writes(e[1], e[2]) = {}

\* The value the arguments of the call determine for a slot of a table
RefValue(name, s) ==
  CASE name = "source_ref_target" -> FromInt(RefRelative(s[1], s[2]))
    [] name = "radii" -> RefRadius(s[1])
    [] name = "phi" -> RefWeight(s[1], s[2])
    [] name = "p" -> RefBasis(s[1], s[2], s[3])
    [] name = "a" ->
         IF <<pseudo_inverse_svd, <<s[1]>>>> \in executed'
         THEN RefInverse(s[1])[<<s[2], s[3]>>]
         ELSE RefMoment(s[1])[<<s[2], s[3]>>]
    [] OTHER -> RefCoefficient(s[1], s[2])

TableAfter(name) ==
  CASE name = "source_ref_target" -> source_ref_target'
    [] name = "radii" -> radii'
    [] name = "phi" -> phi'
    [] name = "p" -> p'
    [] name = "a" -> a'
    [] OTHER -> coeffs'

\* Work item e stores to the slots of Writes only, and each of them (in a row
\* the neighborhood table has) receives the value the arguments of the call
\* determine: the result of the stage does not depend on the order
OrderIndependent(e) ==
  LET written == Writes(e[1], e[2])
  IN  /\ \A name \in {"source_ref_target", "radii", "phi", "p", "a", "coeffs"} :
           IF \E r \in written : r[1] = name
           THEN \A s \in DOMAIN Table(name) :
                  <<name, s>> \notin written =>
                    TableAfter(name)[s] = Table(name)[s]
           ELSE TableAfter(name) = Table(name)
      /\ \A r \in written :
           HasRow(r[2][1]) => TableAfter(r[1])[r[2]] = RefValue(r[1], r[2])

\* C6 as stated: in every stage each work item writes exactly one slot, two
\* work items never write the same slot, none reads a slot another work item
\* of its stage writes, and the result does not depend on the interleaving.
C6_AsStated ==
  [][\A e \in {x \in Ran : num_targets = extent0} :
       /\ Cardinality(Writes(e[1], e[2])) = 1
       /\ RaceFree(e)
       /\ (hostpc' # "crashed") => OrderIndependent(e)]_vars

\* C6 amended: each work item writes only slots of its own: one slot, except
\* that a Vandermonde work item (i, j) writes the poly_size slots p(i,j,.) and
\* a pseudo-inverse work item i rewrites the poly_size^2 slots a(i,.,.); two
\* work items of a stage never write the same slot, none reads a slot another
\* work item of its stage writes, and the result does not depend on the
\* interleaving.
C6_RaceFreedom ==
  [][\A e \in Ran :
       /\ Cardinality(Writes(e[1], e[2])) =
            CASE e[1] = vandermonde_computation -> poly_size
              [] e[1] = pseudo_inverse_svd -> poly_size * poly_size
              [] OTHER -> 1
       /\ RaceFree(e)
       /\ (hostpc' # "crashed") => OrderIndependent(e)]_vars

\* Two targets, degree 1: both radius work items and a two-slot Vandermonde
\* work item have run, others of that stage have not
C6_Witness ==
  /\ degree = 1
  /\ num_targets = 2
  /\ <<radii_computation, <<0>>>> \in executed
  /\ <<radii_computation, <<1>>>> \in executed
  /\ \E w \in ItemsIJ :
       /\ <<vandermonde_computation, w>> \in executed
       /\ Cardinality(Writes(vandermonde_computation, w)) = 2
  /\ Pending(vandermonde_computation) # {}

-----------------------------------------------------------------------------
(* C10 *)

Intermediates == {"source_ref_target", "radii", "phi", "p", "a"}

WriterKernels(name) ==
  {e[1] : e \in {x \in executed :
                   \E r \in Writes(x[1], x[2]) : r[1] = name}}

ReaderKernels(name) ==
  {e[1] : e \in {x \in executed :
                   \E r \in Reads(x[1], x[2]) : r[1] = name}}

\* Only the coefficient table exists once the call has returned
OnlyCoeffsOutlive ==
  hostpc = "returned" =>
    /\ \A name \in Intermediates : Table(name) = Unallocated
    /\ DOMAIN coeffs = ItemsIJ

\* C10 as stated: every intermediate table is written by the stage that
\* creates it only and read by exactly one later stage; only the coefficient
\* table outlives the call.
C10_AsStated ==
  (num_targets = extent0 /\ num_neighbors >= 1) =>
  /\ \A name \in Intermediates : Cardinality(WriterKernels(name)) <= 1
  /\ (Done(coefficients_computation) /\ ItemsIJ # {}) =>
       \A name \in Intermediates : Cardinality(ReaderKernels(name)) = 1
  /\ OnlyCoeffsOutlive

\* The stages that write, and the later stages that read, each table
WritersOf(name) ==
  CASE name = "source_ref_target" -> {source_ref_target_fill}
    [] name = "radii" -> {radii_computation}
    [] name = "phi" -> {phi_computation}
    [] name = "p" -> {vandermonde_computation}
    [] OTHER -> {moment_computation, pseudo_inverse_svd}

ReadersOf(name) ==
  CASE name = "source_ref_target" ->
         {radii_computation, phi_computation, vandermonde_computation}
    [] name = "radii" -> {phi_computation}
    [] name = "phi" -> {moment_computation, coefficients_computation}
    [] name = "p" -> {moment_computation, coefficients_computation}
    [] OTHER -> {pseudo_inverse_svd, coefficients_computation}

C10_State ==
  /\ \A name \in Intermediates :
       /\ WriterKernels(name) \subseteq WritersOf(name)
       /\ ReaderKernels(name) \subseteq ReadersOf(name)
       /\ (Done(coefficients_computation) /\ ItemsIJ # {}) =>
            /\ WriterKernels(name) = WritersOf(name)
            /\ ReaderKernels(name) = ReadersOf(name)
  /\ OnlyCoeffsOutlive

\* A step that does not leave the function leaves a finished table as it is
C10_Step ==
  /\ (hostpc' # "returned") =>
       /\ Done(source_ref_target_fill) => source_ref_target' = source_ref_target
       /\ Done(radii_computation) => radii' = radii
       /\ Done(phi_computation) => phi' = phi
       /\ Done(vandermonde_computation) => p' = p
       /\ Done(pseudo_inverse_svd) => a' = a
       /\ (Done(moment_computation) /\ a' # a) =>
            \E i \in Targets :
              executed' = executed \cup {<<pseudo_inverse_svd, <<i>>>>}
  /\ Done(coefficients_computation) => coeffs' = coeffs

\* C10 amended: source_ref_target, radii, phi and p are never written again
\* once the stage that creates them is complete; the moment matrix a is
\* overwritten in place by the pseudo-inverse stage and by nothing else, and
\* is unchanged after it.  source_ref_target is read by three later stages
\* (radii, phi, Vandermonde), radii by one (phi), phi and p by two (moment,
\* coefficients), a by two (pseudo-inverse, coefficients).  Only the
\* coefficient table outlives the call.
C10_TableLifetimes == []C10_State /\ [][C10_Step]_vars

\* The call has returned a non-empty table after every stage ran
C10_Witness ==
  /\ hostpc = "returned"
  /\ degree = 1
  /\ num_targets = 2
  /\ num_neighbors = 2
  /\ ReaderKernels("source_ref_target") = ReadersOf("source_ref_target")
  /\ WriterKernels("a") = {moment_computation, pseudo_inverse_svd}

-----------------------------------------------------------------------------
(* C2 *)

NothingWritten ==
  \A name \in Intermediates \cup {"coeffs"} :
    \A s \in DOMAIN Table(name) : Table(name)[s] = Undef

\* C2: in a call with num_targets # source_points.extent(0) the violation is
\* detected before any stage is dispatched and is fatal: no stage kernel ever
\* runs and no table slot is written.
C2_AsStated ==
  (num_targets # extent0) => (executed = {} /\ NothingWritten)

-----------------------------------------------------------------------------
(* C3 *)

\* C3: whenever the call returns, the returned table has the shape of the
\* neighborhood table, [extent(0)][extent(1)] = [num_targets][num_neighbors],
\* and every slot has been written with its final value: the coefficient
\* kernel has completed for all (i, j).
C3_AsStated ==
  (hostpc = "returned") =>
    /\ DOMAIN coeffs =
         {<<i, j>> : i \in 0 .. (extent0 - 1), j \in Neighbors}
    /\ Done(coefficients_computation)
    /\ \A s \in DOMAIN coeffs : coeffs[s] # Undef

====
